---- MODULE Spec2Model ----
(***************************************************************************)
(* Client::request of hyper's HTTP client (src/src/client/mod.rs): the     *)
(* redirect loop, the Content-Length decision and the body transfer, run   *)
(* against a table-driven transport as in src/src/mock.rs.                 *)
(***************************************************************************)
EXTENDS Integers, Sequences, FiniteSets, TLC

(* Bounds of the model. *)
MaxHops == 3
MaxBody == 2
(* The longest byte slice, text or reader content given to into_body. *)
MaxLen == 3
(* How far below 0 and above 599 the numbers given to the status          *)
(* conversions go.                                                         *)
Margin == 100

----------------------------------------------------------------------------
(* Option<T>: None is the empty sequence, Some(v) the one-element one. *)
None == << >>
Some(v) == << v >>
IsSome(o) == o # << >>
Unwrap(o) == o[1]

(* HttpResult<Response> *)
Ok(r) == [ok |-> TRUE, res |-> Some(r), err |-> ""]
Err(e) == [ok |-> FALSE, res |-> None, err |-> e]

----------------------------------------------------------------------------
(* URLs.  A URL is its scheme, its host ("" when it has none) and its path. *)
Url(s, h, p) == [scheme |-> s, host |-> h, path |-> p]
UrlA == Url("http", "a", "/")
UrlB == Url("http", "b", "/")
UrlFile == Url("file", "a", "/")
UrlMailto == Url("mailto", "", "x")

(* url.serialize_host(): None for a URL without a host. *)
serialize_host(url) == IF url.host = "" THEN None ELSE Some(url.host)

(* url.port_or_default(): None when the scheme has no default port. *)
port_or_default(url) == IF url.scheme = "http" THEN Some(80) ELSE None

get_host_and_port(url) ==
    IF ~IsSome(serialize_host(url)) THEN Err("HttpUriError(EmptyHost)")
    ELSE IF ~IsSome(port_or_default(url)) THEN Err("HttpUriError(InvalidPort)")
    ELSE Ok(<<Unwrap(serialize_host(url)), Unwrap(port_or_default(url))>>)

(* Location header values: an absolute URL, a path reference, or text that *)
(* is no URI.                                                               *)
LocAbs(u) == [kind |-> "abs", url |-> Some(u), path |-> ""]
LocRel(p) == [kind |-> "rel", url |-> None, path |-> p]
LocBad == [kind |-> "bad", url |-> None, path |-> ""]
Locations == {LocAbs(UrlA), LocAbs(UrlB), LocAbs(UrlMailto), LocAbs(UrlFile),
              LocRel("/p"), LocBad}

(* UrlParser::new().base_url(base).parse(loc) *)
ParseLocation(base, loc) ==
    CASE loc.kind = "abs" -> [ok |-> TRUE, url |-> loc.url]
      [] loc.kind = "rel" ->
            IF base.scheme \in {"http", "file"}
            THEN [ok |-> TRUE, url |-> Some([base EXCEPT !.path = loc.path])]
            ELSE [ok |-> FALSE, url |-> None]
      [] OTHER -> [ok |-> FALSE, url |-> None]

----------------------------------------------------------------------------
(* Status codes and their classes (src/src/status.rs). *)
Informational == 100
Success == 200
Redirection == 300
ClientError == 400
ServerError == 500

(* class with the Redirection arm left out. *)
class_NoRedirection(code) ==
    IF code < 200 THEN Informational
    ELSE IF code < 300 THEN Success
    ELSE IF code < 500 THEN ClientError
    ELSE ServerError

(* class with each limit taken as part of the lower class. *)
class_InclusiveLimits(code) ==
    IF code <= 200 THEN Informational
    ELSE IF code <= 300 THEN Success
    ELSE IF code <= 400 THEN Redirection
    ELSE IF code <= 500 THEN ClientError
    ELSE ServerError

(* StatusCode::class *)
class(code) ==
    IF code < 200 THEN Informational
    ELSE IF code < 300 THEN Success
    ELSE IF code < 400 THEN Redirection
    ELSE IF code < 500 THEN ClientError
    ELSE ServerError

(* StatusCode(u16): the values a status code can hold. *)
U16 == 65536

(* StatusCode::from_code: any u16 is taken as it is. *)
from_code(code) == code % U16

(* from_i64 without the upper limit of the range test. *)
from_i64_NoUpperLimit(n) ==
    IF n < 100 THEN None ELSE Some(n % U16)

(* FromPrimitive::from_i64: `n as u16` of an i64 inside the range. *)
from_i64(n) ==
    IF n < 100 \/ n > 599 THEN None ELSE Some(n % U16)

(* FromPrimitive::from_u64: the same test on an unsigned argument. *)
from_u64(n) ==
    IF n < 100 \/ n > 599 THEN None ELSE Some(n % U16)

(* StatusClass::default_code: the class's discriminant reinterpreted as a  *)
(* StatusCode (transmute).                                                 *)
default_code(cls) == cls % U16

(* The status codes the modelled servers answer with. *)
Statuses == {200, 301, 399, 400}

(* Response { status, headers }: the Location header is the only header    *)
(* the client reads.                                                       *)
Responses == [status : Statuses, location : {None} \cup {Some(l) : l \in Locations}]

----------------------------------------------------------------------------
(* Header collections: each header name is absent or holds one value. *)
HeaderNames == {"Host", "ContentLength", "Authorization"}
NoHeaders == [n \in HeaderNames |-> None]

(* Headers::set: the named header now holds exactly this value. *)
HeadersSet(h, n, v) == [h EXCEPT ![n] = Some(v)]

(* Headers::extend(other.iter()): every header of other is set on h. *)
HeadersExtend(h, other) ==
    [n \in HeaderNames |-> IF IsSome(other[n]) THEN other[n] ELSE h[n]]

(* Request::with_stream(method, url): a fresh request over a fresh stream, *)
(* carrying the request's own default headers.                             *)
NewRequest(method, u, stream) ==
    [method |-> method, url |-> u, stream |-> stream,
     headers |-> HeadersSet(NoHeaders, "Host", u.host)]

----------------------------------------------------------------------------
(* Bodies. *)
Bytes(n) == [i \in 1..n |-> i]

(* str::as_bytes: the UTF-8 encoding of a text given as code points below  *)
(* 2048 (one byte below 128, two bytes from there on).                     *)
RECURSIVE as_bytes(_)
as_bytes(text) ==
    IF text = << >> THEN << >>
    ELSE LET ch == Head(text)
         IN  (IF ch < 128 THEN <<ch>>
              ELSE <<192 + (ch \div 64), 128 + (ch % 64)>>) \o as_bytes(Tail(text))

(* into_body with a text's length counted in characters. *)
into_body_CharCount(b) ==
    IF b.kind = "bytes"
    THEN [tag |-> "SizedBody", rdr |-> b.data, len |-> Len(b.data)]
    ELSE IF b.kind = "str"
    THEN [tag |-> "SizedBody", rdr |-> as_bytes(b.data), len |-> Len(b.data)]
    ELSE [tag |-> "ChunkedBody", rdr |-> b.data, len |-> 0]

(* IntoBody::into_body for &[u8] and &str (SizedBody, the text through     *)
(* as_bytes) and &mut Reader (ChunkedBody).                                *)
into_body(b) ==
    IF b.kind = "bytes"
    THEN [tag |-> "SizedBody", rdr |-> b.data, len |-> Len(b.data)]
    ELSE IF b.kind = "str"
    THEN [tag |-> "SizedBody", rdr |-> as_bytes(b.data), len |-> Len(as_bytes(b.data))]
    ELSE [tag |-> "ChunkedBody", rdr |-> b.data, len |-> 0]

(* Body::size with the length reported for every tag. *)
size_AnyTag(b) == Some(b.len)

(* Body::size *)
size(b) == IF b.tag = "SizedBody" THEN Some(b.len) ELSE None

(* can_have_body with the Head arm left out of the match. *)
can_have_body_HeadHasBody(method) == method # "Get"

(* let can_have_body = match &method { Get | Head => false, _ => true } *)
can_have_body(method) == method \notin {"Get", "Head"}

(* DecideContentLength without the (true, None) arm. *)
DecideContentLength_NoZero(headers, method, b) ==
    IF can_have_body(method) /\ IsSome(b) /\ IsSome(size(Unwrap(b)))
    THEN HeadersSet(headers, "ContentLength", Unwrap(size(Unwrap(b))))
    ELSE headers

(* The Content-Length decision of one hop, on the request's headers. *)
DecideContentLength(headers, method, b) ==
    IF can_have_body(method) /\ IsSome(b)
    THEN IF IsSome(size(Unwrap(b)))
         THEN HeadersSet(headers, "ContentLength", Unwrap(size(Unwrap(b))))
         ELSE headers
    ELSE IF can_have_body(method)
         THEN HeadersSet(headers, "ContentLength", 0)
         ELSE headers

----------------------------------------------------------------------------
(* Redirect policies. *)
FollowNone == [kind |-> "FollowNone", cond |-> ""]
FollowAll == [kind |-> "FollowAll", cond |-> ""]
FollowIf(f) == [kind |-> "FollowIf", cond |-> f]

(* The predicates given to FollowIf: follow_if of the tests (the URL does  *)
(* not name the refused host) and one that accepts every URL.              *)
Conds == {"not_b", "always"}
cond(f, u) == IF f = "not_b" THEN u.host # "b" ELSE TRUE

Policies == {FollowNone, FollowAll} \cup {FollowIf(f) : f \in Conds}

(* PolicyFollows with the FollowAll arm returning the response in hand. *)
PolicyFollows_FollowAllReturns(policy, u) ==
    policy.kind = "FollowIf" /\ cond(policy.cond, u)

(* PolicyFollows with only the FollowIf arm able to return. *)
PolicyFollows_FollowNoneFollows(policy, u) ==
    policy.kind = "FollowIf" => cond(policy.cond, u)

(* PolicyFollows with the guard of the FollowIf arm left out. *)
PolicyFollows_FollowIfUnguarded(policy, u) ==
    policy.kind \in {"FollowAll", "FollowIf"}

(* match self.redirect_policy { FollowAll => (), FollowIf(cond) if cond(&url) => (), *)
(*                              _ => return Ok(res) }                                *)
PolicyFollows(policy, u) ==
    \/ policy.kind = "FollowAll"
    \/ policy.kind = "FollowIf" /\ cond(policy.cond, u)

----------------------------------------------------------------------------
(* The inputs of a call. *)
Methods == {"Get", "Head", "Post"}
Overlays == {None,
             Some([NoHeaders EXCEPT !["Authorization"] = Some("token")]),
             Some([NoHeaders EXCEPT !["ContentLength"] = Some(7),
                                    !["Authorization"] = Some("token")])}
BodySources == {[kind |-> k, data |-> Bytes(n)] :
                    k \in {"bytes", "reader"}, n \in {0, MaxBody}}
InitialUrls == {UrlA, UrlFile}
RequestOptions == [method : Methods, url : InitialUrls, headers : Overlays,
                   body : {None} \cup {Some(b) : b \in BodySources}]

(* The URLs a connector can be asked for, and the table of scripted        *)
(* responses (mock_connector!), filled in as destinations are first asked. *)
Paths == {"/", "/p"}
ServedUrls == {Url("http", h, p) : h \in {"a", "b"}, p \in Paths}

VARIABLES
    redirect_policy,  \* Client.redirect_policy of the client each call runs on
    options,          \* the RequestOptions each call was given
    pc,               \* each call's position in Client::request
    url,              \* let mut url
    body,             \* let mut body : Option<Body>
    req,              \* the hop's Request (None between hops)
    res,              \* the hop's Response (None until send returns)
    result,           \* the call's return value (None while it runs)
    world,            \* the connector's table: URL -> scripted response
    wire,             \* per call, the requests started, with the body bytes written
    history,          \* per call, the responses received, with the URL asked
    connects,         \* per call, the number of Connector::connect calls
    cond_calls,       \* per call, the URLs the FollowIf predicate was given
    into_body_calls,  \* per call, the number of into_body calls
    body_reads,       \* per call, the number of reads of the body's reader
    failures,         \* per call, the transport operations that failed, in order
    op,               \* the function applied last to arg ("none" before any)
    arg,              \* the input the functions of status.rs and IntoBody are applied to
    out               \* what the function applied last returned

vars == <<redirect_policy, options, pc, url, body, req, res, result, world, wire,
          history, connects, cond_calls, into_body_calls, body_reads, failures,
          op, arg, out>>

config == <<redirect_policy, options>>
ghosts == <<wire, history, connects, cond_calls, into_body_calls, body_reads, failures>>
applied == <<op, arg, out>>
client == <<config, pc, url, body, req, res, result, world, ghosts>>

Calls == DOMAIN pc

InitCalls(calls, first, opts, pols) ==
    /\ redirect_policy \in [calls -> pols]
    /\ options \in [calls -> opts]
    /\ pc = [c \in calls |-> IF c \in first THEN "begin" ELSE "waiting"]
    /\ url = [c \in calls |-> options[c].url]
    /\ body = [c \in calls |-> None]
    /\ req = [c \in calls |-> None]
    /\ res = [c \in calls |-> None]
    /\ result = [c \in calls |-> None]
    /\ world = [u \in ServedUrls |-> None]
    /\ wire = [c \in calls |-> << >>]
    /\ history = [c \in calls |-> << >>]
    /\ connects = [c \in calls |-> 0]
    /\ cond_calls = [c \in calls |-> << >>]
    /\ into_body_calls = [c \in calls |-> 0]
    /\ body_reads = [c \in calls |-> 0]
    /\ failures = [c \in calls |-> << >>]

(* No function has been applied. *)
NothingApplied == op = "none" /\ arg = 0 /\ out = None

Init == InitCalls({1}, {1}, RequestOptions, Policies) /\ NothingApplied

(* return r *)
Return(c, r) ==
    /\ result' = [result EXCEPT ![c] = Some(r)]
    /\ pc' = [pc EXCEPT ![c] = "done"]

(* Lines 82-96: destructure the options and materialize the body. *)
IntoBody(c) ==
    /\ pc[c] = "begin"
    /\ url' = [url EXCEPT ![c] = options[c].url]
    /\ IF can_have_body(options[c].method) /\ IsSome(options[c].body)
       THEN /\ body' = [body EXCEPT ![c] = Some(into_body(Unwrap(options[c].body)))]
            /\ into_body_calls' = [into_body_calls EXCEPT ![c] = @ + 1]
       ELSE /\ body' = [body EXCEPT ![c] = None]
            /\ UNCHANGED into_body_calls
    /\ pc' = [pc EXCEPT ![c] = "with_stream"]
    /\ UNCHANGED <<applied, config, req, res, result, world, wire, history, connects,
                   cond_calls, body_reads, failures>>

(* WithStream with every hop after the first issued as a GET. *)
WithStream_GetAfterRedirect(c) ==
    /\ pc[c] = "with_stream"
    /\ connects[c] < MaxHops
    /\ get_host_and_port(url[c]).ok
    /\ connects' = [connects EXCEPT ![c] = @ + 1]
    /\ req' = [req EXCEPT ![c] =
                  Some(NewRequest(IF connects[c] = 0 THEN options[c].method ELSE "Get",
                                  url[c], connects[c] + 1))]
    /\ pc' = [pc EXCEPT ![c] = "extend"]
    /\ UNCHANGED <<applied, config, url, body, res, result, world, wire, history, cond_calls,
                   into_body_calls, body_reads, failures>>

(* Line 99: Request::with_stream::<S>(method.clone(), url.clone()) *)
WithStream(c) ==
    /\ pc[c] = "with_stream"
    /\ connects[c] < MaxHops
    /\ get_host_and_port(url[c]).ok
    /\ connects' = [connects EXCEPT ![c] = @ + 1]
    /\ req' = [req EXCEPT ![c] =
                  Some(NewRequest(options[c].method, url[c], connects[c] + 1))]
    /\ pc' = [pc EXCEPT ![c] = "extend"]
    /\ UNCHANGED <<applied, config, url, body, res, result, world, wire, history, cond_calls,
                   into_body_calls, body_reads, failures>>

(* Line 99, try!: the URL names no host or no port. *)
WithStreamUriError(c) ==
    /\ pc[c] = "with_stream"
    /\ ~get_host_and_port(url[c]).ok
    /\ Return(c, Err(get_host_and_port(url[c]).err))
    /\ UNCHANGED <<applied, config, url, body, req, res, world, ghosts>>

(* Line 99, try!: the connector fails. *)
WithStreamIoError(c) ==
    /\ pc[c] = "with_stream"
    /\ connects[c] < MaxHops
    /\ get_host_and_port(url[c]).ok
    /\ connects' = [connects EXCEPT ![c] = @ + 1]
    /\ failures' = [failures EXCEPT ![c] = Append(@, "with_stream")]
    /\ Return(c, Err("HttpIoError"))
    /\ UNCHANGED <<applied, config, url, body, req, res, world, wire, history, cond_calls,
                   into_body_calls, body_reads>>

(* ExtendHeaders with the request started right after the overlay, the    *)
(* Content-Length decision left out.                                       *)
ExtendHeaders_ThenStart(c) ==
    /\ pc[c] = "extend"
    /\ req' = [req EXCEPT ![c] =
                  IF IsSome(options[c].headers)
                  THEN Some([Unwrap(@) EXCEPT !.headers =
                                 HeadersExtend(@, Unwrap(options[c].headers))])
                  ELSE @]
    /\ pc' = [pc EXCEPT ![c] = "start"]
    /\ UNCHANGED <<applied, config, url, body, res, result, world, ghosts>>

(* Line 100: overlay the caller's headers. *)
ExtendHeaders(c) ==
    /\ pc[c] = "extend"
    /\ req' = [req EXCEPT ![c] =
                  IF IsSome(options[c].headers)
                  THEN Some([Unwrap(@) EXCEPT !.headers =
                                 HeadersExtend(@, Unwrap(options[c].headers))])
                  ELSE @]
    /\ pc' = [pc EXCEPT ![c] = "content_length"]
    /\ UNCHANGED <<applied, config, url, body, res, result, world, ghosts>>

(* SetContentLength with the decision made on the first hop only. *)
SetContentLength_FirstHopOnly(c) ==
    /\ pc[c] = "content_length"
    /\ req' = [req EXCEPT ![c] =
                  IF connects[c] = 1
                  THEN Some([Unwrap(@) EXCEPT !.headers =
                                 DecideContentLength(@, options[c].method, body[c])])
                  ELSE @]
    /\ pc' = [pc EXCEPT ![c] = "start"]
    /\ UNCHANGED <<applied, config, url, body, res, result, world, ghosts>>

(* SetContentLength with a Content-Length that is already on the request   *)
(* (the overlay's) left as it is.                                          *)
SetContentLength_KeepsOverlay(c) ==
    /\ pc[c] = "content_length"
    /\ req' = [req EXCEPT ![c] =
                  IF IsSome(Unwrap(@).headers["ContentLength"])
                  THEN @
                  ELSE Some([Unwrap(@) EXCEPT !.headers =
                                 DecideContentLength(@, options[c].method, body[c])])]
    /\ pc' = [pc EXCEPT ![c] = "start"]
    /\ UNCHANGED <<applied, config, url, body, res, result, world, ghosts>>

(* Lines 102-109: the Content-Length decision. *)
SetContentLength(c) ==
    /\ pc[c] = "content_length"
    /\ req' = [req EXCEPT ![c] =
                  Some([Unwrap(@) EXCEPT !.headers =
                            DecideContentLength(@, options[c].method, body[c])])]
    /\ pc' = [pc EXCEPT ![c] = "start"]
    /\ UNCHANGED <<applied, config, url, body, res, result, world, ghosts>>

(* Line 110: req.start() puts the request line and the headers on the stream. *)
Start(c) ==
    /\ pc[c] = "start"
    /\ wire' = [wire EXCEPT ![c] =
                   Append(@, [req |-> Unwrap(req[c]), body |-> << >>, sent |-> FALSE])]
    /\ pc' = [pc EXCEPT ![c] = "copy"]
    /\ UNCHANGED <<applied, config, url, body, req, res, result, world, history, connects,
                   cond_calls, into_body_calls, body_reads, failures>>

(* Line 110, try!: start fails. *)
StartIoError(c) ==
    /\ pc[c] = "start"
    /\ failures' = [failures EXCEPT ![c] = Append(@, "start")]
    /\ Return(c, Err("HttpIoError"))
    /\ UNCHANGED <<applied, config, url, body, req, res, world, wire, history, connects,
                   cond_calls, into_body_calls, body_reads>>

(* The bytes of the started request, after n more body bytes were written. *)
Written(w, data) == [w EXCEPT ![Len(w)].body = data]

(* CopyBody with the body borrowed (as_mut) instead of taken. *)
CopyBody_NoTake(c) ==
    /\ pc[c] = "copy"
    /\ IF IsSome(body[c])
       THEN /\ wire' = [wire EXCEPT ![c] = Written(@, Unwrap(body[c]).rdr)]
            /\ body_reads' = [body_reads EXCEPT ![c] = @ + 1]
       ELSE UNCHANGED <<wire, body_reads>>
    /\ pc' = [pc EXCEPT ![c] = "send"]
    /\ UNCHANGED <<applied, config, url, body, req, res, result, world, history,
                   connects, cond_calls, into_body_calls, failures>>

(* Line 111: body.take().map(|mut rdr| copy(&mut rdr, &mut streaming)) *)
CopyBody(c) ==
    /\ pc[c] = "copy"
    /\ IF IsSome(body[c])
       THEN /\ wire' = [wire EXCEPT ![c] = Written(@, Unwrap(body[c]).rdr)]
            /\ body_reads' = [body_reads EXCEPT ![c] = @ + 1]
       ELSE UNCHANGED <<wire, body_reads>>
    /\ body' = [body EXCEPT ![c] = None]
    /\ pc' = [pc EXCEPT ![c] = "send"]
    /\ UNCHANGED <<applied, config, url, req, res, result, world, history, connects,
                   cond_calls, into_body_calls, failures>>

(* Line 111 when a write fails after k bytes: copy returns Err, and the    *)
(* value of the map is dropped.                                             *)
CopyBodyIoError(c) ==
    /\ pc[c] = "copy"
    /\ IsSome(body[c])
    /\ \E k \in 0..(Len(Unwrap(body[c]).rdr) - 1) :
          wire' = [wire EXCEPT ![c] = Written(@, SubSeq(Unwrap(body[c]).rdr, 1, k))]
    /\ body_reads' = [body_reads EXCEPT ![c] = @ + 1]
    /\ failures' = [failures EXCEPT ![c] = Append(@, "copy")]
    /\ body' = [body EXCEPT ![c] = None]
    /\ pc' = [pc EXCEPT ![c] = "send"]
    /\ UNCHANGED <<applied, config, url, req, res, result, world, history, connects,
                   cond_calls, into_body_calls>>

(* Line 112: streaming.send() finishes the request and reads the response  *)
(* the destination is scripted to give.                                    *)
Send(c) ==
    /\ pc[c] = "send"
    /\ \E r \in Responses :
          /\ IsSome(world[url[c]]) => r = Unwrap(world[url[c]])
          /\ world' = [world EXCEPT ![url[c]] = Some(r)]
          /\ res' = [res EXCEPT ![c] =
                        Some([status |-> r.status, location |-> r.location,
                              server |-> url[c], stream |-> Unwrap(req[c]).stream])]
          /\ history' = [history EXCEPT ![c] =
                            Append(@, [url |-> url[c], status |-> r.status,
                                       location |-> r.location])]
    /\ wire' = [wire EXCEPT ![c] = [@ EXCEPT ![Len(@)].sent = TRUE]]
    /\ pc' = [pc EXCEPT ![c] = "status"]
    /\ UNCHANGED <<applied, config, url, body, req, result, connects, cond_calls,
                   into_body_calls, body_reads, failures>>

(* SendIoError with the hop tried again instead of the error returned. *)
SendIoError_Retries(c) ==
    /\ pc[c] = "send"
    /\ failures' = [failures EXCEPT ![c] = Append(@, "send")]
    /\ pc' = [pc EXCEPT ![c] = "with_stream"]
    /\ UNCHANGED <<applied, config, url, body, req, res, result, world, wire, history,
                   connects, cond_calls, into_body_calls, body_reads>>

(* Line 112, try!: send fails. *)
SendIoError(c) ==
    /\ pc[c] = "send"
    /\ failures' = [failures EXCEPT ![c] = Append(@, "send")]
    /\ Return(c, Err("HttpIoError"))
    /\ UNCHANGED <<applied, config, url, body, req, res, world, wire, history, connects,
                   cond_calls, into_body_calls, body_reads>>

(* res.status.class() == Redirection *)
IsRedirect(r) == class(r.status) = Redirection

(* ReturnNotRedirection with the response taken on to the policy match. *)
ReturnNotRedirection_ConsultsPolicy(c) ==
    /\ pc[c] = "status"
    /\ ~IsRedirect(Unwrap(res[c]))
    /\ pc' = [pc EXCEPT ![c] = "policy"]
    /\ UNCHANGED <<applied, config, url, body, req, res, result, world, ghosts>>

(* Lines 113-115: a response that is no redirect is the result. *)
ReturnNotRedirection(c) ==
    /\ pc[c] = "status"
    /\ ~IsRedirect(Unwrap(res[c]))
    /\ Return(c, Ok(Unwrap(res[c])))
    /\ UNCHANGED <<applied, config, url, body, req, res, world, ghosts>>

(* ReturnNoLocation with the loop going on to the policy with the URL unchanged. *)
ReturnNoLocation_Loops(c) ==
    /\ pc[c] = "status"
    /\ IsRedirect(Unwrap(res[c]))
    /\ ~IsSome(Unwrap(res[c]).location)
    /\ pc' = [pc EXCEPT ![c] = "policy"]
    /\ UNCHANGED <<applied, config, url, body, req, res, result, world, ghosts>>

(* ReturnNoLocation with the missing header reported as an error. *)
ReturnNoLocation_Errs(c) ==
    /\ pc[c] = "status"
    /\ IsRedirect(Unwrap(res[c]))
    /\ ~IsSome(Unwrap(res[c]).location)
    /\ Return(c, Err("HttpHeaderError"))
    /\ UNCHANGED <<applied, config, url, body, req, res, world, ghosts>>

(* Lines 118-134: a redirect without a Location header is the result. *)
ReturnNoLocation(c) ==
    /\ pc[c] = "status"
    /\ IsRedirect(Unwrap(res[c]))
    /\ ~IsSome(Unwrap(res[c]).location)
    /\ Return(c, Ok(Unwrap(res[c])))
    /\ UNCHANGED <<applied, config, url, body, req, res, world, ghosts>>

(* Candidate with the Location resolved against the call's initial URL. *)
Candidate_AgainstInitial(c) ==
    ParseLocation(options[c].url, Unwrap(Unwrap(res[c]).location))

(* The Location of the response in hand, resolved against the current URL. *)
Candidate(c) == ParseLocation(url[c], Unwrap(Unwrap(res[c]).location))

(* ReturnInvalidUri with the parse error propagated as the call's error. *)
ReturnInvalidUri_Errs(c) ==
    /\ pc[c] = "status"
    /\ IsRedirect(Unwrap(res[c]))
    /\ IsSome(Unwrap(res[c]).location)
    /\ ~Candidate(c).ok
    /\ Return(c, Err("HttpUriError(InvalidUri)"))
    /\ UNCHANGED <<applied, config, url, body, req, res, world, ghosts>>

(* Lines 135-144, Err(e): a Location that is no URI makes the redirect the result. *)
ReturnInvalidUri(c) ==
    /\ pc[c] = "status"
    /\ IsRedirect(Unwrap(res[c]))
    /\ IsSome(Unwrap(res[c]).location)
    /\ ~Candidate(c).ok
    /\ Return(c, Ok(Unwrap(res[c])))
    /\ UNCHANGED <<applied, config, url, body, req, res, world, ghosts>>

(* SetUrl with the URL kept in one place for all the calls. *)
SetUrl_Shared(c) ==
    /\ pc[c] = "status"
    /\ IsRedirect(Unwrap(res[c]))
    /\ IsSome(Unwrap(res[c]).location)
    /\ Candidate(c).ok
    /\ url' = [b \in Calls |-> Unwrap(Candidate(c).url)]
    /\ pc' = [pc EXCEPT ![c] = "policy"]
    /\ UNCHANGED <<applied, config, body, req, res, result, world, ghosts>>

(* Lines 135-139, Ok(u): url = u *)
SetUrl(c) ==
    /\ pc[c] = "status"
    /\ IsRedirect(Unwrap(res[c]))
    /\ IsSome(Unwrap(res[c]).location)
    /\ Candidate(c).ok
    /\ url' = [url EXCEPT ![c] = Unwrap(Candidate(c).url)]
    /\ pc' = [pc EXCEPT ![c] = "policy"]
    /\ UNCHANGED <<applied, config, body, req, res, result, world, ghosts>>

(* The FollowIf predicate is called once when the policy is matched. *)
ConsultPolicy(c) ==
    cond_calls' = [cond_calls EXCEPT ![c] =
                      IF redirect_policy[c].kind = "FollowIf"
                      THEN Append(@, url[c]) ELSE @]

(* Follow with a ceiling on the hops of one call (the counter that is      *)
(* commented out at lines 85 and 151).                                     *)
Follow_Ceiling(c) ==
    /\ pc[c] = "policy"
    /\ PolicyFollows(redirect_policy[c], url[c])
    /\ ConsultPolicy(c)
    /\ IF connects[c] >= 2
       THEN /\ Return(c, Err("HttpRedirectLimit"))
            /\ UNCHANGED <<req, res>>
       ELSE /\ req' = [req EXCEPT ![c] = None]
            /\ res' = [res EXCEPT ![c] = None]
            /\ pc' = [pc EXCEPT ![c] = "with_stream"]
            /\ UNCHANGED result
    /\ UNCHANGED <<applied, config, url, body, world, wire, history, connects,
                   into_body_calls, body_reads, failures>>

(* Follow with the response in hand kept over the next iteration. *)
Follow_KeepsResponse(c) ==
    /\ pc[c] = "policy"
    /\ PolicyFollows(redirect_policy[c], url[c])
    /\ ConsultPolicy(c)
    /\ pc' = [pc EXCEPT ![c] = "with_stream"]
    /\ UNCHANGED <<applied, config, url, body, req, res, result, world, wire, history,
                   connects, into_body_calls, body_reads, failures>>

(* Lines 145-148 and 152: the policy accepts, the loop goes round. *)
Follow(c) ==
    /\ pc[c] = "policy"
    /\ PolicyFollows(redirect_policy[c], url[c])
    /\ ConsultPolicy(c)
    /\ req' = [req EXCEPT ![c] = None]
    /\ res' = [res EXCEPT ![c] = None]
    /\ pc' = [pc EXCEPT ![c] = "with_stream"]
    /\ UNCHANGED <<applied, config, url, body, result, world, wire, history, connects,
                   into_body_calls, body_reads, failures>>

(* Line 149: the policy refuses, the redirect is the result. *)
ReturnPolicy(c) ==
    /\ pc[c] = "policy"
    /\ ~PolicyFollows(redirect_policy[c], url[c])
    /\ ConsultPolicy(c)
    /\ Return(c, Ok(Unwrap(res[c])))
    /\ UNCHANGED <<applied, config, url, body, req, res, world, wire, history, connects,
                   into_body_calls, body_reads, failures>>

Next ==
    \/ \E c \in Calls : IntoBody(c)
    \/ \E c \in Calls : WithStream(c)
    \/ \E c \in Calls : WithStreamUriError(c)
    \/ \E c \in Calls : WithStreamIoError(c)
    \/ \E c \in Calls : ExtendHeaders(c)
    \/ \E c \in Calls : SetContentLength(c)
    \/ \E c \in Calls : Start(c)
    \/ \E c \in Calls : StartIoError(c)
    \/ \E c \in Calls : CopyBody(c)
    \/ \E c \in Calls : CopyBodyIoError(c)
    \/ \E c \in Calls : Send(c)
    \/ \E c \in Calls : SendIoError(c)
    \/ \E c \in Calls : ReturnNotRedirection(c)
    \/ \E c \in Calls : ReturnNoLocation(c)
    \/ \E c \in Calls : ReturnInvalidUri(c)
    \/ \E c \in Calls : SetUrl(c)
    \/ \E c \in Calls : Follow(c)
    \/ \E c \in Calls : ReturnPolicy(c)

Spec == Init /\ [][Next]_vars

(* Two calls made one after the other against the same table of scripted  *)
(* responses, the first on a FollowIf client and the second, made when the *)
(* first has returned, with the same options on a FollowAll client.        *)
SeqOptions ==
    {[method |-> "Get", url |-> UrlA, headers |-> None, body |-> None],
     [method |-> "Post", url |-> UrlA, headers |-> None,
      body |-> Some([kind |-> "bytes", data |-> Bytes(MaxBody)])]}

InitSeq ==
    /\ InitCalls({1, 2}, {1}, SeqOptions, Policies)
    /\ redirect_policy[1].kind = "FollowIf"
    /\ redirect_policy[2] = FollowAll
    /\ options[1] = options[2]
    /\ NothingApplied

(* NextCall with the earlier call having left the client's policy at       *)
(* FollowNone.                                                             *)
NextCall_PolicySpent(c) ==
    /\ pc[c] = "waiting"
    /\ \A b \in Calls : b < c => pc[b] = "done"
    /\ pc' = [pc EXCEPT ![c] = "begin"]
    /\ redirect_policy' = [redirect_policy EXCEPT ![c] = FollowNone]
    /\ UNCHANGED <<applied, options, url, body, req, res, result, world, ghosts>>

(* The caller makes its next call. *)
NextCall(c) ==
    /\ pc[c] = "waiting"
    /\ \A b \in Calls : b < c => pc[b] = "done"
    /\ pc' = [pc EXCEPT ![c] = "begin"]
    /\ UNCHANGED <<applied, config, url, body, req, res, result, world, ghosts>>

NextSeq == Next \/ \E c \in Calls : NextCall(c)

SpecSeq == InitSeq /\ [][NextSeq]_vars

----------------------------------------------------------------------------
(* Two calls made one after the other on the same Client (the policy it    *)
(* was made with, Client::new) with the same options, against the same     *)
(* table of scripted responses.                                            *)
InitSame ==
    /\ InitCalls({1, 2}, {1}, SeqOptions, Policies)
    /\ redirect_policy[1] = redirect_policy[2]
    /\ options[1] = options[2]
    /\ NothingApplied

SpecSame == InitSame /\ [][NextSeq]_vars

----------------------------------------------------------------------------
(* Two calls under way at once, on clients with the same or different      *)
(* policies, their steps interleaved in any order, against one table of    *)
(* scripted responses: a GET or a POST next to a POST.                     *)
PairOptions ==
    {[method |-> "Get", url |-> UrlA,
      headers |-> Some([NoHeaders EXCEPT !["Authorization"] = Some("token")]),
      body |-> None],
     [method |-> "Post", url |-> UrlB, headers |-> None,
      body |-> Some([kind |-> "bytes", data |-> Bytes(MaxBody)])]}
PairPolicies == {FollowAll, FollowIf("not_b")}

(* The tables.  http://a/ redirects to http://b/, by a path reference or   *)
(* to a URL without a host; http://b/ redirects to http://a/, by a path    *)
(* reference or with a Location that is no URI; http://a/p answers 200 and *)
(* http://b/p a redirect without a Location.                               *)
Redirect(loc) == [status |-> 301, location |-> Some(loc)]
RootResponsesA == {Redirect(LocAbs(UrlB)), Redirect(LocRel("/p")), Redirect(LocAbs(UrlMailto))}
RootResponsesB == {Redirect(LocAbs(UrlA)), Redirect(LocRel("/p")), Redirect(LocBad)}
PairWorlds ==
    {[u \in ServedUrls |->
          IF u = UrlA THEN Some(ra)
          ELSE IF u = UrlB THEN Some(rb)
          ELSE IF u.host = "a" THEN Some([status |-> 200, location |-> None])
          ELSE Some([status |-> 301, location |-> None])] :
        ra \in RootResponsesA, rb \in RootResponsesB}

InitPair ==
    /\ redirect_policy \in [{1, 2} -> PairPolicies]
    /\ options \in [{1, 2} -> PairOptions]
    /\ options[2].method = "Post"
    /\ world \in PairWorlds
    /\ pc = [c \in {1, 2} |-> "begin"]
    /\ url = [c \in {1, 2} |-> options[c].url]
    /\ body = [c \in {1, 2} |-> None]
    /\ req = [c \in {1, 2} |-> None]
    /\ res = [c \in {1, 2} |-> None]
    /\ result = [c \in {1, 2} |-> None]
    /\ wire = [c \in {1, 2} |-> << >>]
    /\ history = [c \in {1, 2} |-> << >>]
    /\ connects = [c \in {1, 2} |-> 0]
    /\ cond_calls = [c \in {1, 2} |-> << >>]
    /\ into_body_calls = [c \in {1, 2} |-> 0]
    /\ body_reads = [c \in {1, 2} |-> 0]
    /\ failures = [c \in {1, 2} |-> << >>]
    /\ NothingApplied

SpecPair == InitPair /\ [][Next]_vars

----------------------------------------------------------------------------
(* IntoBody and Body::size on their own: a value of one of the three types *)
(* with an IntoBody impl is converted, then asked for its size.            *)

(* The elements of the inputs: a one-byte and a two-byte character as code *)
(* points for a text, the same numbers as bytes for a slice or a reader.   *)
Elements == {97, 233}

RECURSIVE SeqsUpTo(_)
SeqsUpTo(n) ==
    IF n = 0 THEN {<< >>}
    ELSE LET shorter == SeqsUpTo(n - 1)
         IN  shorter \cup {Append(q, x) : q \in shorter, x \in Elements}

IntoBodyInputs == {[kind |-> k, data |-> d] :
                       k \in {"bytes", "str", "reader"}, d \in SeqsUpTo(MaxLen)}

InitBody ==
    /\ InitCalls({}, {}, RequestOptions, Policies)
    /\ op = "none"
    /\ arg \in IntoBodyInputs
    /\ out = None

(* b.into_body() *)
ApplyIntoBody ==
    /\ op = "none"
    /\ op' = "into_body"
    /\ out' = Some(into_body(arg))
    /\ UNCHANGED <<arg, client>>

(* body.size() *)
ApplySize ==
    /\ op = "into_body"
    /\ op' = "size"
    /\ out' = size(Unwrap(out))
    /\ UNCHANGED <<arg, client>>

NextBody == ApplyIntoBody \/ ApplySize

SpecBody == InitBody /\ [][NextBody]_vars

----------------------------------------------------------------------------
(* The status conversions on their own: a number is given to from_i64 or   *)
(* from_u64, or made a StatusCode by from_code and asked for its class,    *)
(* the class for its default code, the default code for its class.         *)

(* The numbers given: around the range 100..599 and one turn of u16 above  *)
(* it (n as u16 of these is inside the range).                             *)
StatusArgs == ((0 - Margin)..(599 + Margin)) \cup ((U16 + 100 - Margin)..(U16 + 100 + Margin))

InitStatus ==
    /\ InitCalls({}, {}, RequestOptions, Policies)
    /\ op = "none"
    /\ arg \in StatusArgs
    /\ out = None

(* FromPrimitive::from_i64(arg) *)
ApplyFromI64 ==
    /\ op = "none"
    /\ op' = "from_i64"
    /\ out' = from_i64(arg)
    /\ UNCHANGED <<arg, client>>

(* FromPrimitive::from_u64(arg): the argument is unsigned. *)
ApplyFromU64 ==
    /\ op = "none"
    /\ arg >= 0
    /\ op' = "from_u64"
    /\ out' = from_u64(arg)
    /\ UNCHANGED <<arg, client>>

(* StatusCode::from_code(arg).class(): the argument is a u16. *)
ApplyClass ==
    /\ op = "none"
    /\ arg \in 0..(U16 - 1)
    /\ op' = "class"
    /\ out' = Some(class(from_code(arg)))
    /\ UNCHANGED <<arg, client>>

(* .default_code() of the class *)
ApplyDefaultCode ==
    /\ op = "class"
    /\ op' = "default_code"
    /\ out' = Some(default_code(Unwrap(out)))
    /\ UNCHANGED <<arg, client>>

(* .class() of the default code *)
ApplyClassOfDefault ==
    /\ op = "default_code"
    /\ op' = "class_of_default"
    /\ out' = Some(class(Unwrap(out)))
    /\ UNCHANGED <<arg, client>>

(* Line 113 of the client: the loop's test of a response with this status. *)
ApplyIsRedirect ==
    /\ op = "none"
    /\ arg \in 0..(U16 - 1)
    /\ op' = "is_redirect"
    /\ out' = Some(IsRedirect([status |-> from_code(arg)]))
    /\ UNCHANGED <<arg, client>>

NextStatus ==
    \/ ApplyIsRedirect
    \/ ApplyFromI64
    \/ ApplyFromU64
    \/ ApplyClass
    \/ ApplyDefaultCode
    \/ ApplyClassOfDefault

SpecStatus == InitStatus /\ [][NextStatus]_vars

----------------------------------------------------------------------------
(* What the properties below read. *)
Returned(c) == IsSome(result[c])
ReturnedOk(c) == Returned(c) /\ Unwrap(result[c]).ok
ReturnedErr(c) == Returned(c) /\ ~Unwrap(result[c]).ok
TheResponse(c) == Unwrap(Unwrap(result[c]).res)

(* The number of request/response exchanges of a call: requests started and sent. *)
Exchanges(c) == Cardinality({k \in 1..Len(wire[c]) : wire[c][k].sent})

(* A received response that the loop can follow: 3xx with a Location that  *)
(* resolves against the URL that was asked.                                *)
Followable(e) ==
    /\ class(e.status) = Redirection
    /\ IsSome(e.location)
    /\ ParseLocation(e.url, Unwrap(e.location)).ok
Target(e) == Unwrap(ParseLocation(e.url, Unwrap(e.location)).url)

(* The returned response is the k-th response received. *)
IsResponse(c, k) ==
    /\ TheResponse(c).status = history[c][k].status
    /\ TheResponse(c).location = history[c][k].location
    /\ TheResponse(c).server = history[c][k].url
    /\ TheResponse(c).stream = k

(* The number of 3xx responses among the first n received. *)
Redirects(c, n) ==
    Cardinality({k \in 1..n : class(history[c][k].status) = Redirection})

(* The responses received form a redirect chain from the call's URL: each  *)
(* but the last is followable, and each next one was asked of its target.  *)
IsChain(c) ==
    LET h == history[c] IN
    /\ Len(h) >= 1
    /\ h[1].url = options[c].url
    /\ \A k \in 1..(Len(h) - 1) : Followable(h[k]) /\ h[k + 1].url = Target(h[k])

(* C1 (as amended): under FollowAll, a call that returns a response has    *)
(* walked a chain of N followable 3xx responses, returns the response that *)
(* ends the chain, which it could not follow, and has made exactly N + 1   *)
(* exchanges (one per 3xx response and one for the final response).        *)
C1_FollowAllReturnsChainEnd ==
    \A c \in Calls :
        (redirect_policy[c] = FollowAll /\ ReturnedOk(c)) =>
            LET n == Len(history[c]) IN
            /\ IsChain(c)
            /\ ~Followable(history[c][n])
            /\ IsResponse(c, n)
            /\ Redirects(c, n - 1) = n - 1
            /\ Exchanges(c) = Redirects(c, n - 1) + 1
            /\ connects[c] = Exchanges(c)

(* C1 as stated: the final non-3xx response of a chain of N 3xx responses  *)
(* is returned after exactly N exchanges.                                  *)
C1_FollowAllExactlyNHops ==
    \A c \in Calls :
        (/\ redirect_policy[c] = FollowAll
         /\ ReturnedOk(c)
         /\ class(TheResponse(c).status) # Redirection) =>
            Exchanges(c) = Redirects(c, Len(history[c]))

(* A FollowAll call that followed two redirects to a final non-3xx response. *)
C1_Witness ==
    \E c \in Calls :
        /\ redirect_policy[c] = FollowAll
        /\ ReturnedOk(c)
        /\ class(TheResponse(c).status) # Redirection
        /\ Redirects(c, Len(history[c])) = 2
        /\ Exchanges(c) = 3

(* C2: under FollowNone a call opens at most one connection and makes at   *)
(* most one exchange, and what it returns is the first response received,  *)
(* whatever its status.                                                    *)
C2_FollowNoneOneExchange ==
    \A c \in Calls :
        redirect_policy[c] = FollowNone =>
            /\ connects[c] <= 1
            /\ Len(wire[c]) <= 1
            /\ Len(history[c]) <= 1
            /\ Len(history[c]) = 1 => history[c][1].url = options[c].url
            /\ ReturnedOk(c) => (Exchanges(c) = 1 /\ IsResponse(c, 1))
            /\ (pc[c] = "done" /\ Len(history[c]) = 1) => ReturnedOk(c)

(* A FollowNone call that returned a 3xx response whose Location resolves. *)
C2_Witness ==
    \E c \in Calls :
        /\ redirect_policy[c] = FollowNone
        /\ ReturnedOk(c)
        /\ Followable(history[c][1])
        /\ IsResponse(c, 1)

(* C3: under FollowIf(p) the predicate is given each hop's resolved        *)
(* candidate; the first candidate it rejects ends the call with the 3xx    *)
(* response of that hop and is not requested; and when p rejects nothing   *)
(* the call returns what a FollowAll call with the same options returns.   *)
AcceptsAll(c) ==
    \A k \in 1..Len(cond_calls[c]) : cond(redirect_policy[c].cond, cond_calls[c][k])

NoTransportError(c) == Unwrap(result[c]).err # "HttpIoError"

C3_FollowIfStopsAtFirstRejection ==
    /\ \A c \in Calls :
          redirect_policy[c].kind = "FollowIf" =>
              LET n == Len(cond_calls[c]) IN
              /\ n <= Len(history[c])
              /\ \A k \in 1..n : /\ Followable(history[c][k])
                                 /\ cond_calls[c][k] = Target(history[c][k])
              /\ \A k \in 1..(n - 1) : cond(redirect_policy[c].cond, cond_calls[c][k])
              /\ ~AcceptsAll(c) =>
                    /\ ReturnedOk(c)
                    /\ Len(history[c]) = n
                    /\ IsResponse(c, n)
                    /\ class(TheResponse(c).status) = Redirection
                    /\ connects[c] = n
                    /\ Len(wire[c]) = n
    /\ \A c, d \in Calls :
          (/\ redirect_policy[c].kind = "FollowIf"
           /\ redirect_policy[d] = FollowAll
           /\ options[c] = options[d]
           /\ Returned(c) /\ Returned(d)
           /\ NoTransportError(c) /\ NoTransportError(d)
           /\ AcceptsAll(c)) => result[c] = result[d]

(* A FollowIf call that followed one redirect and returned the second 3xx  *)
(* response because its candidate was rejected, beside a FollowAll call    *)
(* with the same options that went on to the rejected URL.                 *)
C3_Witness ==
    \E c, d \in Calls :
        /\ redirect_policy[c].kind = "FollowIf"
        /\ ReturnedOk(c)
        /\ Len(cond_calls[c]) = 2
        /\ ~AcceptsAll(c)
        /\ IsResponse(c, 2)
        /\ redirect_policy[d] = FollowAll
        /\ options[c] = options[d]
        /\ ReturnedOk(d)
        /\ TheResponse(d).server = cond_calls[c][2]

(* A FollowIf call that followed every redirect and returned the response  *)
(* a FollowAll call with the same options returned.                        *)
C3_NeverRejectsReached ==
    \E c, d \in Calls :
        /\ redirect_policy[c].kind = "FollowIf"
        /\ redirect_policy[d] = FollowAll
        /\ options[c] = options[d]
        /\ ReturnedOk(c) /\ ReturnedOk(d)
        /\ Len(cond_calls[c]) = 2
        /\ AcceptsAll(c)
        /\ result[c] = result[d]

(* C4: a 3xx response without a Location header is the last response of   *)
(* its call under every policy: no connection is opened after it, the      *)
(* predicate is not consulted for it, and it is what the call returns.     *)
C4_NoLocationIsTerminal ==
    \A c \in Calls :
        \A k \in 1..Len(history[c]) :
            (/\ class(history[c][k].status) = Redirection
             /\ ~IsSome(history[c][k].location)) =>
                /\ k = Len(history[c])
                /\ connects[c] = k
                /\ Len(wire[c]) = k
                /\ Len(cond_calls[c]) =
                       IF redirect_policy[c].kind = "FollowIf" THEN k - 1 ELSE 0
                /\ pc[c] \in {"status", "done"}
                /\ pc[c] = "done" => (ReturnedOk(c) /\ IsResponse(c, k))

(* A FollowIf call that followed one redirect and returned a second 3xx    *)
(* response that has no Location.                                          *)
C4_Witness ==
    \E c \in Calls :
        /\ redirect_policy[c].kind = "FollowIf"
        /\ ReturnedOk(c)
        /\ Len(history[c]) = 2
        /\ class(TheResponse(c).status) = Redirection
        /\ ~IsSome(TheResponse(c).location)
        /\ Len(cond_calls[c]) = 1

(* A received 3xx response whose Location does not resolve. *)
Unresolvable(e) ==
    /\ class(e.status) = Redirection
    /\ IsSome(e.location)
    /\ ~ParseLocation(e.url, Unwrap(e.location)).ok

(* C5: a 3xx response whose Location does not resolve against the current *)
(* URL is the last response of its call, and the call returns Ok with it:  *)
(* no error, no further hop.                                               *)
C5_InvalidLocationIsTerminal ==
    \A c \in Calls :
        \A k \in 1..Len(history[c]) :
            Unresolvable(history[c][k]) =>
                /\ k = Len(history[c])
                /\ connects[c] = k
                /\ Len(wire[c]) = k
                /\ pc[c] \in {"status", "done"}
                /\ pc[c] = "done" => (ReturnedOk(c) /\ IsResponse(c, k))

(* A FollowAll call that followed one redirect and returned a second 3xx   *)
(* response whose Location is no URI.                                      *)
C5_Witness ==
    \E c \in Calls :
        /\ redirect_policy[c] = FollowAll
        /\ ReturnedOk(c)
        /\ Len(history[c]) = 2
        /\ Unresolvable(history[c][2])
        /\ IsResponse(c, 2)

(* C6: when with_stream, start or send fails, the call has returned that   *)
(* error: the failure is the last transport operation of the call, the hop *)
(* got no response, and no hop follows it.                                 *)
C6_TransportErrorAborts ==
    \A c \in Calls :
        \A i \in 1..Len(failures[c]) :
            failures[c][i] \in {"with_stream", "start", "send"} =>
                /\ i = Len(failures[c])
                /\ pc[c] = "done"
                /\ result[c] = Some(Err("HttpIoError"))
                /\ Len(history[c]) = connects[c] - 1
                /\ Len(wire[c]) = IF failures[c][i] = "send" THEN connects[c]
                                  ELSE connects[c] - 1
                /\ Exchanges(c) = connects[c] - 1

(* A call whose send failed on its second hop. *)
C6_Witness ==
    \E c \in Calls :
        /\ failures[c] = <<"send">>
        /\ connects[c] = 2
        /\ Len(history[c]) = 1
        /\ result[c] = Some(Err("HttpIoError"))

(* C7: when the copy of the body onto the stream fails, no request of the  *)
(* call is finished with send and the call does not return a response.     *)
C7_CopyErrorAborts ==
    \A c \in Calls :
        (\E i \in 1..Len(failures[c]) : failures[c][i] = "copy") =>
            /\ Exchanges(c) = 0
            /\ ~ReturnedOk(c)

(* The URLs a call has to open: its own, and the target of every redirect  *)
(* its policy follows.                                                     *)
HopUrlsOk(c) ==
    /\ get_host_and_port(options[c].url).ok
    /\ \A k \in 1..Len(history[c]) :
          (Followable(history[c][k])
             /\ PolicyFollows(redirect_policy[c], Target(history[c][k]))) =>
                get_host_and_port(Target(history[c][k])).ok

(* C8 (as amended): a call in which no transport operation failed returns  *)
(* Ok with a response exactly when every URL it had to open names a host   *)
(* and a port; otherwise it returns the URI error of the URL it could not  *)
(* open, raised when that hop is opened.                                   *)
C8_OkUnlessUriError ==
    \A c \in Calls :
        (Returned(c) /\ failures[c] = << >>) =>
            /\ ReturnedOk(c) <=> HopUrlsOk(c)
            /\ ReturnedErr(c) =>
                  /\ Unwrap(result[c]) = Err(get_host_and_port(url[c]).err)
                  /\ ~get_host_and_port(url[c]).ok
                  /\ connects[c] = Len(history[c])

(* C8 as stated: without a transport failure the result is never an error. *)
C8_NeverErrWithoutTransportFailure ==
    \A c \in Calls : (Returned(c) /\ failures[c] = << >>) => ReturnedOk(c)

(* A call without transport failure that returned Ok with a 3xx response   *)
(* whose Location is no URI, after following a redirect.                   *)
C8_Witness ==
    \E c \in Calls :
        /\ ReturnedOk(c)
        /\ failures[c] = << >>
        /\ HopUrlsOk(c)
        /\ Len(history[c]) = 2
        /\ Unresolvable(history[c][2])

(* A call without transport failure that returned a URI error for the      *)
(* target of a redirect it followed.                                       *)
C8_UriErrorReached ==
    \E c \in Calls :
        /\ ReturnedErr(c)
        /\ failures[c] = << >>
        /\ Len(history[c]) = 1
        /\ url[c] = UrlMailto

(* The Content-Length of the caller's header overlay, if it has one. *)
OverlayContentLength(c) ==
    IF IsSome(options[c].headers)
    THEN Unwrap(options[c].headers)["ContentLength"]
    ELSE None

(* C9 (as amended): for GET and HEAD the client sets no Content-Length and *)
(* writes no body byte on any hop, and never calls into_body or reads the  *)
(* supplied body; a request carries a Content-Length only when the         *)
(* caller's header overlay holds one, and then with the overlay's value.   *)
C9_GetHeadSendNoBody ==
    \A c \in Calls :
        options[c].method \in {"Get", "Head"} =>
            /\ \A k \in 1..Len(wire[c]) :
                  /\ wire[c][k].req.headers["ContentLength"] = OverlayContentLength(c)
                  /\ wire[c][k].body = << >>
            /\ into_body_calls[c] = 0
            /\ body_reads[c] = 0
            /\ body[c] = None

(* C9 as stated: with any header overlay, no request of a GET or HEAD call *)
(* carries a Content-Length.                                               *)
C9_GetHeadNeverContentLength ==
    \A c \in Calls :
        options[c].method \in {"Get", "Head"} =>
            /\ \A k \in 1..Len(wire[c]) :
                  /\ ~IsSome(wire[c][k].req.headers["ContentLength"])
                  /\ wire[c][k].body = << >>
            /\ into_body_calls[c] = 0
            /\ body_reads[c] = 0

(* A HEAD call given a non-empty reader as its body that made two          *)
(* exchanges and returned.                                                 *)
C9_Witness ==
    \E c \in Calls :
        /\ options[c].method = "Head"
        /\ IsSome(options[c].body)
        /\ Unwrap(options[c].body).kind = "reader"
        /\ Len(Unwrap(options[c].body).data) > 0
        /\ ~IsSome(OverlayContentLength(c))
        /\ Exchanges(c) = 2
        /\ ReturnedOk(c)

(* C10: a call of a method other than GET and HEAD with no body sends      *)
(* every request, the first and every redirect hop, with Content-Length 0  *)
(* and without body bytes.                                                 *)
C10_NoBodyContentLengthZero ==
    \A c \in Calls :
        (options[c].method \notin {"Get", "Head"} /\ ~IsSome(options[c].body)) =>
            \A k \in 1..Len(wire[c]) :
                /\ wire[c][k].req.headers["ContentLength"] = Some(0)
                /\ wire[c][k].body = << >>

(* A POST call without a body, whose overlay holds another Content-Length, *)
(* that made three exchanges.                                              *)
C10_Witness ==
    \E c \in Calls :
        /\ options[c].method = "Post"
        /\ ~IsSome(options[c].body)
        /\ IsSome(OverlayContentLength(c))
        /\ Exchanges(c) = 3
        /\ ReturnedOk(c)

(* The call is of a method that can have a body and was given one. *)
CarriesBody(c) ==
    options[c].method \notin {"Get", "Head"} /\ IsSome(options[c].body)

(* C11 (as amended): on the first hop of a call that carries a body, a     *)
(* body made from bytes is sent with Content-Length equal to its length;   *)
(* for a body made from a reader the client sets no Content-Length, so the *)
(* request has one only when the caller's header overlay holds one.        *)
C11_ContentLengthFromBodyTag ==
    \A c \in Calls :
        (CarriesBody(c) /\ Len(wire[c]) >= 1) =>
            LET b == Unwrap(options[c].body)
                sent == wire[c][1].req.headers["ContentLength"]
            IN  IF b.kind = "reader"
                THEN sent = OverlayContentLength(c)
                ELSE sent = Some(Len(b.data))

(* C11 as stated: a Chunked body is sent with no Content-Length at all. *)
C11_ChunkedNeverContentLength ==
    \A c \in Calls :
        (CarriesBody(c) /\ Len(wire[c]) >= 1) =>
            LET b == Unwrap(options[c].body)
                sent == wire[c][1].req.headers["ContentLength"]
            IN  IF b.kind = "reader"
                THEN ~IsSome(sent)
                ELSE sent = Some(Len(b.data))

(* A POST call whose body is a non-empty reader, without a Content-Length  *)
(* in its overlay, whose first request was sent with the body written and  *)
(* without Content-Length.                                                 *)
C11_Witness ==
    \E c \in Calls :
        /\ options[c].method = "Post"
        /\ IsSome(options[c].body)
        /\ Unwrap(options[c].body).kind = "reader"
        /\ ~IsSome(OverlayContentLength(c))
        /\ Len(wire[c]) >= 1
        /\ wire[c][1].sent
        /\ wire[c][1].body = Unwrap(options[c].body).data
        /\ Len(wire[c][1].body) > 0
        /\ ~IsSome(wire[c][1].req.headers["ContentLength"])

(* A POST call whose body is made from bytes, with another Content-Length  *)
(* in its overlay, sent with the length of the bytes.                      *)
C11_SizedReached ==
    \E c \in Calls :
        /\ options[c].method = "Post"
        /\ IsSome(options[c].body)
        /\ Unwrap(options[c].body).kind = "bytes"
        /\ IsSome(OverlayContentLength(c))
        /\ Len(wire[c]) >= 1
        /\ wire[c][1].sent
        /\ wire[c][1].req.headers["ContentLength"] = Some(MaxBody)

(* C12: a call materializes its body at most once and reads it at most     *)
(* once; its bytes go to the first hop's stream only: once a second hop is *)
(* opened the body slot is empty and no later request has body bytes.      *)
C12_BodyWrittenOnce ==
    \A c \in Calls :
        /\ into_body_calls[c] <= 1
        /\ body_reads[c] <= 1
        /\ IsSome(body[c]) => (Len(wire[c]) <= 1 /\ connects[c] <= 1 /\ body_reads[c] = 0)
        /\ \A k \in 2..Len(wire[c]) : wire[c][k].body = << >>
        /\ body_reads[c] = 1 => (CarriesBody(c) /\ into_body_calls[c] = 1)

(* A POST call with a non-empty body that made three exchanges: the first  *)
(* request has the body's bytes, the later ones none.                      *)
C12_Witness ==
    \E c \in Calls :
        /\ CarriesBody(c)
        /\ Exchanges(c) = 3
        /\ Len(wire[c][1].body) = MaxBody
        /\ wire[c][2].body = << >>
        /\ wire[c][3].body = << >>
        /\ body_reads[c] = 1

(* The byte length of an input of into_body: a slice's length, and for a   *)
(* text one byte for each character below 128 and two for each other.      *)
ByteLength(b) ==
    IF b.kind = "str"
    THEN Len(b.data) + Cardinality({i \in 1..Len(b.data) : b.data[i] >= 128})
    ELSE Len(b.data)

(* C13: into_body of a byte slice or a text of byte length L is a          *)
(* SizedBody of length L, whose size() is Some(L); into_body of a reader   *)
(* is a ChunkedBody, whose size() is None, whatever the bytes it yields.   *)
C13_IntoBodyTagAndSize ==
    /\ op = "into_body" =>
           LET b == Unwrap(out)
           IN  IF arg.kind = "reader"
               THEN b.tag = "ChunkedBody"
               ELSE b.tag = "SizedBody" /\ b.len = ByteLength(arg)
    /\ op = "size" =>
           out = IF arg.kind = "reader" THEN None ELSE Some(ByteLength(arg))

(* The text "aé" (two characters, three bytes) was converted and sized. *)
C13_Witness ==
    /\ op = "size"
    /\ arg.kind = "str"
    /\ arg.data = <<97, 233>>
    /\ out = Some(3)

(* A reader of MaxLen bytes was converted and has no size. *)
C13_ReaderReached ==
    /\ op = "size"
    /\ arg.kind = "reader"
    /\ Len(arg.data) = MaxLen
    /\ out = None

(* C14: for every code in 100..599 the default code of the code's class is *)
(* the x00 code of that class, one of 100, 200, 300, 400, 500, and its     *)
(* class is the class of the code.                                         *)
C14_DefaultCodeIsClassBase ==
    (arg \in 100..599) =>
        /\ op = "default_code" =>
               /\ out = Some((arg \div 100) * 100)
               /\ Unwrap(out) \in {100, 200, 300, 400, 500}
        /\ op = "class_of_default" =>
               /\ out = Some(class(arg))
               /\ out = Some((arg \div 100) * 100)

(* The default code of the class of 399 was asked for its class. *)
C14_Witness ==
    /\ op = "class_of_default"
    /\ arg = 399
    /\ out = Some(Redirection)

(* C15: from_i64 and from_u64 return None below 100 and above 599, and the *)
(* StatusCode whose value is the argument in between.                      *)
C15_FromPrimitiveRange ==
    op \in {"from_i64", "from_u64"} =>
        out = IF arg < 100 \/ arg > 599 THEN None ELSE Some(arg)

(* from_i64 refused a number whose low 16 bits are inside the range. *)
C15_Witness ==
    /\ op = "from_i64"
    /\ arg = U16 + 100
    /\ out = None

(* from_u64 returned the upper end of the range. *)
C15_UpperEndReached ==
    /\ op = "from_u64"
    /\ arg = 599
    /\ out = Some(599)

(* What a Location that is a URI resolves to against a base URL: an        *)
(* absolute one is the URL itself, a path reference is the base with its   *)
(* path replaced.                                                          *)
Resolved(base, loc) ==
    IF loc.kind = "abs" THEN Unwrap(loc.url) ELSE [base EXCEPT !.path = loc.path]

(* C16: the URL of hop k+1, and the candidate held while the policy is     *)
(* matched after hop k, is hop k's Location resolved against the URL hop k *)
(* was sent to, not against the call's initial URL.                        *)
C16_LocationResolvedAgainstCurrentUrl ==
    \A c \in Calls :
        /\ \A k \in 1..Len(history[c]) : history[c][k].url = wire[c][k].req.url
        /\ \A k \in 1..(Len(wire[c]) - 1) :
               LET e == history[c][k]
               IN  /\ IsSome(e.location)
                   /\ Unwrap(e.location).kind \in {"abs", "rel"}
                   /\ wire[c][k + 1].req.url = Resolved(e.url, Unwrap(e.location))
        /\ pc[c] = "policy" =>
               LET e == history[c][Len(history[c])]
               IN  url[c] = Resolved(e.url, Unwrap(e.location))

(* A call on http://a/ was redirected to http://b/ and from there by the   *)
(* path reference /p: its third hop went to http://b/p.                    *)
C16_Witness ==
    \E c \in Calls :
        /\ options[c].url = UrlA
        /\ Len(wire[c]) = 3
        /\ history[c][1].location = Some(LocAbs(UrlB))
        /\ wire[c][2].req.url = UrlB
        /\ history[c][2].location = Some(LocRel("/p"))
        /\ wire[c][3].req.url = Url("http", "b", "/p")

(* The call's policy follows every candidate: FollowAll, or FollowIf with  *)
(* a predicate that is true of every URL.                                  *)
FollowsEvery(c) ==
    \/ redirect_policy[c].kind = "FollowAll"
    \/ redirect_policy[c].kind = "FollowIf" /\ \A u \in ServedUrls : cond(redirect_policy[c].cond, u)

(* The call is in a redirect cycle: it has asked the same URL twice. *)
InCycle(c) ==
    \E i, j \in 1..Len(wire[c]) : i < j /\ wire[c][i].req.url = wire[c][j].req.url

(* C17: there is no ceiling on the hops of a call.  Under a policy that    *)
(* follows every candidate, a call in a redirect cycle never returns a     *)
(* response and never returns a redirect-limit error: it returns only the  *)
(* error of a transport operation that failed, and otherwise its next      *)
(* follow and its next hop are always open to it.                          *)
C17_NoHopCeiling ==
    \A c \in Calls :
        (FollowsEvery(c) /\ InCycle(c)) =>
            /\ ~ReturnedOk(c)
            /\ ReturnedErr(c) =>
                   /\ Unwrap(result[c]).err = "HttpIoError"
                   /\ failures[c] # << >>
                   /\ failures[c][Len(failures[c])] \in {"with_stream", "start", "send"}
            /\ pc[c] = "policy" => ENABLED Follow(c)
            /\ (pc[c] = "with_stream" /\ connects[c] < MaxHops) => ENABLED WithStream(c)

(* A call under FollowAll on a URL that redirects to itself has made       *)
(* MaxHops exchanges with it, each answered by the same redirect, and is   *)
(* about to follow once more.                                              *)
C17_Witness ==
    \E c \in Calls :
        /\ redirect_policy[c] = FollowAll
        /\ Len(history[c]) = MaxHops
        /\ \A k \in 1..MaxHops : history[c][k].url = UrlA /\ Followable(history[c][k])
        /\ InCycle(c)
        /\ pc[c] = "policy"
        /\ ~Returned(c)

(* A call under FollowIf with the always-true predicate went from          *)
(* http://a/ to http://b/ and back.                                        *)
C17_TwoUrlCycleReached ==
    \E c \in Calls :
        /\ redirect_policy[c] = FollowIf("always")
        /\ Len(wire[c]) = 3
        /\ wire[c][1].req.url = UrlA
        /\ wire[c][2].req.url = UrlB
        /\ wire[c][3].req.url = UrlA

(* The policy is matched, and a FollowIf predicate called, only on the     *)
(* candidate of a followable response, once for each.                      *)
PolicyOnlyOnCandidates ==
    \A c \in Calls :
        LET h == history[c]
            n == Len(cond_calls[c])
        IN  /\ redirect_policy[c].kind # "FollowIf" => n = 0
            /\ n <= Len(h)
            /\ redirect_policy[c].kind = "FollowIf" => n >= Len(h) - 1
            /\ \A k \in 1..n :
                   /\ class(h[k].status) = Redirection
                   /\ IsSome(h[k].location)
                   /\ Unwrap(h[k].location).kind \in {"abs", "rel"}
                   /\ cond_calls[c][k] = Resolved(h[k].url, Unwrap(h[k].location))
            /\ pc[c] = "policy" =>
                   /\ Len(h) >= 1
                   /\ n = (IF redirect_policy[c].kind = "FollowIf" THEN Len(h) - 1 ELSE 0)
                   /\ Followable(h[Len(h)])
                   /\ url[c] = Resolved(h[Len(h)].url, Unwrap(h[Len(h)].location))
            /\ (Len(h) >= 1 /\ ~Followable(h[Len(h)])) => n < Len(h)
            /\ ReturnedOk(c) => pc[c] = "done"

(* A call that has returned takes no further step: nothing of it changes. *)
ReturnedIsFinal ==
    \A c \in Calls :
        pc[c] = "done" =>
            /\ pc'[c] = "done"
            /\ result'[c] = result[c]
            /\ url'[c] = url[c]
            /\ res'[c] = res[c]
            /\ wire'[c] = wire[c]
            /\ history'[c] = history[c]
            /\ connects'[c] = connects[c]
            /\ cond_calls'[c] = cond_calls[c]

(* C18: the policy (and the FollowIf predicate) is consulted only after a  *)
(* 3xx response whose Location resolved, with the resolved candidate as    *)
(* its argument, at most once for each hop: never before the first         *)
(* response, never after a response that is no redirect or whose Location  *)
(* is missing or does not resolve; and once a call has returned it makes   *)
(* no further transition.                                                  *)
C18_PolicyConsultedOnCandidateOnly ==
    []PolicyOnlyOnCandidates /\ [][ReturnedIsFinal]_vars

(* A FollowIf call whose predicate was called for the candidates of its    *)
(* first two responses and not for its third, not followable, which it     *)
(* returned.                                                               *)
C18_Witness ==
    \E c \in Calls :
        /\ redirect_policy[c].kind = "FollowIf"
        /\ Len(history[c]) = 3
        /\ Len(cond_calls[c]) = 2
        /\ ~Followable(history[c][3])
        /\ ReturnedOk(c)
        /\ pc[c] = "done"

(* The headers of the hop's request once the overlay is on them. *)
Overlaid(c) ==
    LET own == NewRequest(options[c].method, url[c], connects[c]).headers
    IN  IF IsSome(options[c].headers)
        THEN HeadersExtend(own, Unwrap(options[c].headers))
        ELSE own

(* Where a hop stands, read off what it has done so far: nothing is on the *)
(* stream before start, the started request has the decided headers, no    *)
(* body byte before copy, no response before send.                         *)
HopStepsDone ==
    \A c \in Calls :
        LET n == connects[c] IN
        /\ pc[c] \in {"extend", "content_length", "start"} =>
               /\ IsSome(req[c])
               /\ Len(wire[c]) = n - 1
               /\ Len(history[c]) = n - 1
        /\ pc[c] = "extend" =>
               Unwrap(req[c]) = NewRequest(options[c].method, url[c], n)
        /\ pc[c] = "content_length" =>
               Unwrap(req[c]).headers = Overlaid(c)
        /\ pc[c] = "start" =>
               Unwrap(req[c]).headers =
                   DecideContentLength(Overlaid(c), options[c].method, body[c])
        /\ pc[c] \in {"copy", "send"} =>
               /\ Len(wire[c]) = n
               /\ wire[c][n].req = Unwrap(req[c])
               /\ ~wire[c][n].sent
               /\ Len(history[c]) = n - 1
        /\ pc[c] = "copy" => wire[c][n].body = << >>
        /\ pc[c] = "send" => body[c] = None
        /\ pc[c] = "status" =>
               /\ Len(wire[c]) = n
               /\ wire[c][n].sent
               /\ Len(history[c]) = n
               /\ IsSome(res[c])
        /\ \A k \in 1..Len(wire[c]) :
               /\ wire[c][k].sent <=> k <= Len(history[c])
               /\ (CarriesBody(c) /\ k = 1 /\ Unwrap(options[c].body).kind = "bytes"
                     /\ wire[c][k].body # << >>) =>
                      wire[c][k].req.headers["ContentLength"] = Some(Len(Unwrap(options[c].body).data))

(* The steps of a hop in their order, and what leaves it. *)
HopOrder == {<<"with_stream", "extend">>, <<"extend", "content_length">>,
             <<"content_length", "start">>, <<"start", "copy">>,
             <<"copy", "send">>, <<"send", "status">>}
HopExits == {<<"with_stream", "done">>, <<"start", "done">>, <<"send", "done">>,
             <<"status", "done">>, <<"status", "policy">>, <<"policy", "done">>,
             <<"policy", "with_stream">>, <<"begin", "with_stream">>}

(* Every step is the next one of the order, and each effect belongs to its *)
(* step: the connect to with_stream, the headers to the two steps before   *)
(* start, the request on the stream to start, the body bytes to copy, the  *)
(* response to send.                                                       *)
HopStepsInOrder ==
    \A c \in Calls :
        /\ pc'[c] # pc[c] => <<pc[c], pc'[c]>> \in HopOrder \cup HopExits
        /\ connects'[c] # connects[c] => pc[c] = "with_stream"
        /\ (IsSome(req[c]) /\ IsSome(req'[c]) /\ req'[c] # req[c]) =>
               /\ pc[c] \in {"extend", "content_length"}
               /\ Len(wire'[c]) = connects[c] - 1
        /\ Len(wire'[c]) # Len(wire[c]) => <<pc[c], pc'[c]>> = <<"start", "copy">>
        /\ (Len(wire'[c]) = Len(wire[c]) /\ wire'[c] # wire[c]) =>
               \/ <<pc[c], pc'[c]>> = <<"copy", "send">>
               \/ <<pc[c], pc'[c]>> = <<"send", "status">> /\ history'[c] # history[c]
        /\ history'[c] # history[c] => <<pc[c], pc'[c]>> = <<"send", "status">>
        /\ res'[c] # res[c] =>
               \/ <<pc[c], pc'[c]>> = <<"send", "status">>
               \/ <<pc[c], pc'[c]>> = <<"policy", "with_stream">>

(* C19: within every hop the order is: open the request, overlay the       *)
(* caller's headers, decide Content-Length, start, copy the body, send.    *)
(* The Content-Length decision comes before start and before any body      *)
(* byte, and the response is read only after the body copy.                *)
C19_HopStepsOrdered ==
    []HopStepsDone /\ [][HopStepsInOrder]_vars

(* A POST of two bytes with an overlay went through a whole hop: the       *)
(* request on the stream has the overlay's Authorization, the decided      *)
(* Content-Length and the body, and its response has been read.            *)
C19_Witness ==
    \E c \in Calls :
        /\ pc[c] = "status"
        /\ options[c].method = "Post"
        /\ CarriesBody(c)
        /\ Unwrap(options[c].body) = [kind |-> "bytes", data |-> Bytes(MaxBody)]
        /\ IsSome(OverlayContentLength(c))
        /\ wire[c][1].req.headers["Authorization"] = Some("token")
        /\ wire[c][1].req.headers["ContentLength"] = Some(MaxBody)
        /\ wire[c][1].body = Bytes(MaxBody)
        /\ wire[c][1].sent
        /\ Len(history[c]) = 1

(* The streams a call holds: the one of the request it is building or has  *)
(* sent, the one its response in hand reads from, and the one of the       *)
(* response it returned.                                                   *)
LiveStreams(c) ==
    {Unwrap(req[c]).stream : x \in {y \in {1} : IsSome(req[c])}}
        \cup {Unwrap(res[c]).stream : x \in {y \in {1} : IsSome(res[c])}}
        \cup {TheResponse(c).stream : x \in {y \in {1} : ReturnedOk(c)}}

(* C20: each hop runs on a fresh stream obtained by one connect: the k-th  *)
(* exchange is on the k-th stream connected and on no other, a call holds  *)
(* at most one stream at a time, the last one connected, and holds none    *)
(* when it is about to open the next hop.                                  *)
C20_OneStreamPerHop ==
    \A c \in Calls :
        /\ \A k \in 1..Len(wire[c]) : wire[c][k].req.stream = k
        /\ Len(wire[c]) <= connects[c]
        /\ connects[c] <= Len(wire[c]) + 1
        /\ Cardinality(LiveStreams(c)) <= 1
        /\ LiveStreams(c) \subseteq {connects[c]}
        /\ pc[c] \in {"begin", "with_stream"} => LiveStreams(c) = {}
        /\ pc[c] \in {"extend", "content_length", "start", "copy", "send", "status",
                      "policy"} => LiveStreams(c) = {connects[c]}
        /\ ReturnedOk(c) => TheResponse(c).stream = Len(history[c])

(* A call made three exchanges, each on its own stream, and returned the   *)
(* response read from the third.                                           *)
C20_Witness ==
    \E c \in Calls :
        /\ ReturnedOk(c)
        /\ connects[c] = 3
        /\ Len(wire[c]) = 3
        /\ \A k \in 1..3 : wire[c][k].sent /\ wire[c][k].req.stream = k
        /\ LiveStreams(c) = {3}

(* A call whose second connect was made after the first stream was let go. *)
C20_SecondHopReached ==
    \E c \in Calls :
        /\ pc[c] = "extend"
        /\ connects[c] = 2
        /\ Len(history[c]) = 1
        /\ LiveStreams(c) = {2}

(* No transport operation of the call failed. *)
NoFailure(c) == failures[c] = << >>

(* The policy each call finds on its client is the one the client was made *)
(* with, and a call that meets no transport failure ends as the earlier    *)
(* call with the same options did: same exchanges, same result.            *)
SameClientSameOutcome ==
    /\ redirect_policy[1] = redirect_policy[2]
    /\ (pc[1] = "done" /\ pc[2] = "done" /\ NoFailure(1) /\ NoFailure(2)) =>
           /\ result[2] = result[1]
           /\ history[2] = history[1]
           /\ wire[2] = wire[1]
           /\ cond_calls[2] = cond_calls[1]

(* No step changes the policy of a client. *)
PolicyKept == redirect_policy' = redirect_policy

(* C21: request never modifies the Client: whatever calls were made, the   *)
(* policy is the one given to Client::new, so a call's outcome depends on  *)
(* its options and the transport's responses only, not on earlier calls on *)
(* the same Client.                                                        *)
C21_ClientNeverModified ==
    []SameClientSameOutcome /\ [][PolicyKept]_vars

(* On a FollowAll client a first call failed at its second hop, and the    *)
(* second call with the same options was then redirected twice and         *)
(* returned a response.                                                    *)
C21_Witness ==
    /\ redirect_policy[1] = FollowAll
    /\ pc[1] = "done"
    /\ ReturnedErr(1)
    /\ Len(history[1]) = 1
    /\ pc[2] = "done"
    /\ ReturnedOk(2)
    /\ Len(history[2]) = 3
    /\ redirect_policy[2] = FollowAll

(* Both calls on a FollowIf client returned the same redirect after the    *)
(* same two exchanges.                                                     *)
C21_SameOutcomeReached ==
    /\ redirect_policy[1].kind = "FollowIf"
    /\ pc[1] = "done" /\ pc[2] = "done"
    /\ NoFailure(1) /\ NoFailure(2)
    /\ ReturnedOk(1)
    /\ Len(history[1]) = 2
    /\ result[2] = result[1]
    /\ wire[2] = wire[1]

(* The class a code's hundreds digit selects. *)
ClassOfHundreds(code) ==
    CASE code \div 100 = 1 -> Informational
      [] code \div 100 = 2 -> Success
      [] code \div 100 = 3 -> Redirection
      [] code \div 100 = 4 -> ClientError
      [] code \div 100 = 5 -> ServerError

(* C23: for every code in 100..599, class is the class selected by the     *)
(* code's hundreds digit (1 Informational, 2 Success, 3 Redirection,       *)
(* 4 ClientError, 5 ServerError), and the redirect loop takes a response   *)
(* for a redirect exactly when its code is in 300..399.                    *)
C23_ClassByHundreds ==
    (arg \in 100..599) =>
        /\ op = "class" => out = Some(ClassOfHundreds(arg))
        /\ op = "is_redirect" => out = Some(arg \in 300..399)

(* The loop's test took 399 for a redirect. *)
C23_Witness ==
    /\ op = "is_redirect"
    /\ arg = 399
    /\ out = Some(TRUE)

(* The loop's test took 400 for no redirect, and 400 is a ClientError. *)
C23_NoRedirectReached == op = "is_redirect" /\ arg = 400 /\ out = Some(FALSE)
C23_ClientErrorReached == op = "class" /\ arg = 400 /\ out = Some(ClientError)

(* The caller's header overlay (no header when there is none). *)
Overlay(c) ==
    IF IsSome(options[c].headers) THEN Unwrap(options[c].headers) ELSE NoHeaders

(* C24 (as amended): every hop of a call is issued with the call's method  *)
(* and with the caller's overlay applied: each header of the overlay other *)
(* than Content-Length is sent unchanged on every hop, whatever the host;  *)
(* a hop's Content-Length is not the overlay's only where the method can   *)
(* have a body and the client has set its own.                             *)
C24_SameMethodAndOverlay ==
    \A c \in Calls :
        \A k \in 1..Len(wire[c]) :
            LET r == wire[c][k].req IN
            /\ r.method = options[c].method
            /\ r.headers["Host"] = Some(r.url.host)
            /\ \A n \in HeaderNames \ {"Host", "ContentLength"} :
                   r.headers[n] = Overlay(c)[n]
            /\ r.headers["ContentLength"] # Overlay(c)["ContentLength"] =>
                   options[c].method \notin {"Get", "Head"}

(* C24 as stated: every header of the caller's overlay is sent unchanged   *)
(* on every hop.                                                           *)
C24_OverlayResentUnchanged ==
    \A c \in Calls :
        \A k \in 1..Len(wire[c]) :
            /\ wire[c][k].req.method = options[c].method
            /\ \A n \in HeaderNames :
                   IsSome(Overlay(c)[n]) => wire[c][k].req.headers[n] = Overlay(c)[n]

(* A POST with an Authorization header was redirected from host a to host  *)
(* b and on: all three requests are POSTs carrying the header.             *)
C24_Witness ==
    \E c \in Calls :
        /\ options[c].method = "Post"
        /\ Overlay(c)["Authorization"] = Some("token")
        /\ Len(wire[c]) = 3
        /\ wire[c][1].req.url.host = "a"
        /\ wire[c][2].req.url.host = "b"
        /\ \A k \in 1..3 : /\ wire[c][k].req.method = "Post"
                           /\ wire[c][k].req.headers["Authorization"] = Some("token")
                           /\ wire[c][k].sent

(* A POST of a reader with Content-Length 7 in its overlay sent 7 on its   *)
(* first hop and 0 on its second.                                          *)
C24_ContentLengthChangedReached ==
    \E c \in Calls :
        /\ options[c].method = "Post"
        /\ Overlay(c)["ContentLength"] = Some(7)
        /\ Len(wire[c]) >= 2
        /\ wire[c][1].req.headers["ContentLength"] = Some(7)
        /\ wire[c][2].req.headers["ContentLength"] = Some(0)

(* C25: for a method that can have a body, called with a body, every hop   *)
(* after the first is sent with Content-Length 0, whether the body was     *)
(* Sized or Chunked, whatever the overlay holds and however many bytes the *)
(* first hop's copy wrote.                                                 *)
C25_LaterHopsContentLengthZero ==
    \A c \in Calls :
        CarriesBody(c) =>
            \A k \in 2..Len(wire[c]) :
                /\ wire[c][k].req.headers["ContentLength"] = Some(0)
                /\ wire[c][k].body = << >>

(* A POST of a non-empty reader with Content-Length 7 in its overlay made  *)
(* three exchanges: the second and third were sent with Content-Length 0.  *)
C25_Witness ==
    \E c \in Calls :
        /\ CarriesBody(c)
        /\ Unwrap(options[c].body) = [kind |-> "reader", data |-> Bytes(MaxBody)]
        /\ Overlay(c)["ContentLength"] = Some(7)
        /\ Len(wire[c]) = 3
        /\ wire[c][1].body = Bytes(MaxBody)
        /\ wire[c][2].sent /\ wire[c][2].req.headers["ContentLength"] = Some(0)
        /\ wire[c][3].sent /\ wire[c][3].req.headers["ContentLength"] = Some(0)

(* The first hop's copy of a Sized body failed before any byte, and the    *)
(* second hop was sent with Content-Length 0.                              *)
C25_ZeroBytesCopiedReached ==
    \E c \in Calls :
        /\ CarriesBody(c)
        /\ Unwrap(options[c].body) = [kind |-> "bytes", data |-> Bytes(MaxBody)]
        /\ failures[c] = <<"copy">>
        /\ wire[c][1].body = << >>
        /\ Len(wire[c]) >= 2
        /\ wire[c][2].sent
        /\ wire[c][2].req.headers["ContentLength"] = Some(0)

(* C26: for a method that can have a body, with a body made from bytes or  *)
(* no body at all, each hop is sent with the Content-Length the client     *)
(* computed (the length of the bytes on the hop that carries them, 0       *)
(* otherwise) also when the caller's overlay holds another Content-Length: *)
(* the computed value replaces the overlay's.                              *)
C26_ComputedContentLengthWins ==
    \A c \in Calls :
        (/\ options[c].method \notin {"Get", "Head"}
         /\ IsSome(options[c].body) => Unwrap(options[c].body).kind = "bytes") =>
            \A k \in 1..Len(wire[c]) :
                wire[c][k].req.headers["ContentLength"] =
                    IF k = 1 /\ IsSome(options[c].body)
                    THEN Some(Len(Unwrap(options[c].body).data))
                    ELSE Some(0)

(* A POST of MaxBody bytes with Content-Length 7 in its overlay: the first *)
(* request was sent with Content-Length MaxBody and the whole body.        *)
C26_Witness ==
    \E c \in Calls :
        /\ options[c].method = "Post"
        /\ options[c].body = Some([kind |-> "bytes", data |-> Bytes(MaxBody)])
        /\ Overlay(c)["ContentLength"] = Some(7)
        /\ MaxBody # 7
        /\ wire[c] # << >>
        /\ wire[c][1].sent
        /\ wire[c][1].body = Bytes(MaxBody)
        /\ wire[c][1].req.headers["ContentLength"] = Some(MaxBody)
        /\ wire[c][1].req.headers["Authorization"] = Some("token")

(* A POST without a body with Content-Length 7 in its overlay was sent     *)
(* with Content-Length 0.                                                  *)
C26_NoBodyReached ==
    \E c \in Calls :
        /\ options[c].method = "Post"
        /\ options[c].body = None
        /\ Overlay(c)["ContentLength"] = Some(7)
        /\ wire[c] # << >>
        /\ wire[c][1].sent
        /\ wire[c][1].req.headers["ContentLength"] = Some(0)

(* The exchanges of a call run on its own, from URL u with at most n hops  *)
(* left, against a table of scripted responses, when no transport          *)
(* operation fails: it stops at a URL that cannot be opened, at a response *)
(* that cannot be followed and at a candidate the policy refuses.          *)
RECURSIVE Walk(_, _, _, _)
Walk(policy, u, table, n) ==
    IF n = 0 \/ ~get_host_and_port(u).ok THEN << >>
    ELSE LET r == Unwrap(table[u])
             e == [url |-> u, status |-> r.status, location |-> r.location]
         IN  IF Followable(e) /\ PolicyFollows(policy, Target(e))
             THEN <<e>> \o Walk(policy, Target(e), table, n - 1)
             ELSE <<e>>

Alone(c) == Walk(redirect_policy[c], options[c].url, world, MaxHops)

(* What one call holds. *)
OfCall(c) == <<pc[c], url[c], body[c], req[c], res[c], result[c], wire[c], history[c],
               connects[c], cond_calls[c], into_body_calls[c], body_reads[c],
               failures[c]>>

(* Each call's exchanges are those of its run alone, as far as it has got, *)
(* made with its own method and body, and a call that returns a response   *)
(* returns the one its run alone ends with.                                *)
AsAlone ==
    \A c \in Calls :
        LET alone == Alone(c) IN
        /\ Len(wire[c]) <= Len(alone)
        /\ Len(history[c]) <= Len(wire[c])
        /\ \A k \in 1..Len(wire[c]) :
               /\ wire[c][k].req.url = alone[k].url
               /\ wire[c][k].req.method = options[c].method
               /\ wire[c][k].req.stream = k
               /\ wire[c][k].body # << >> =>
                      /\ k = 1
                      /\ CarriesBody(c)
                      /\ wire[c][k].body = SubSeq(Unwrap(options[c].body).data, 1,
                                                  Len(wire[c][k].body))
        /\ \A k \in 1..Len(history[c]) : history[c][k] = alone[k]
        /\ (pc[c] \notin {"begin", "done"}) =>
               url[c] = IF pc[c] \in {"policy", "with_stream"}
                        THEN (IF history[c] = << >> THEN options[c].url
                              ELSE Target(history[c][Len(history[c])]))
                        ELSE alone[connects[c]].url
        /\ ReturnedOk(c) =>
               /\ history[c] = alone
               /\ IsResponse(c, Len(alone))
        /\ (Returned(c) /\ NoFailure(c)) => history[c] = alone

(* A step is a step of one call and changes nothing the other call holds. *)
OneCallSteps ==
    \A c \in Calls :
        OfCall(c)' # OfCall(c) =>
            \A b \in Calls \ {c} : OfCall(b)' = OfCall(b)

(* C22: of two calls whose steps are interleaved in any order, each makes  *)
(* the exchanges and returns the result of its run alone: no step of one   *)
(* call reads or writes the URL, the body or the stream of the other.      *)
C22_InterleavedCallsIndependent ==
    []AsAlone /\ [][OneCallSteps /\ world' = world]_vars

(* A GET from http://a/ on a FollowIf client and a POST from http://b/ on  *)
(* a FollowAll client were under way at once on a table where each root    *)
(* redirects to the other: the GET returned the redirect to http://b/      *)
(* after one exchange while the POST, its body sent to http://b/, had      *)
(* gone on to http://a/ and back.                                          *)
C22_Witness ==
    /\ options[1].method = "Get" /\ options[2].method = "Post"
    /\ redirect_policy[1] = FollowIf("not_b") /\ redirect_policy[2] = FollowAll
    /\ ReturnedOk(1)
    /\ Len(history[1]) = 1
    /\ TheResponse(1).location = Some(LocAbs(UrlB))
    /\ Len(wire[2]) = 3
    /\ wire[2][1].body = Bytes(MaxBody)
    /\ wire[2][2].req.url = UrlA
    /\ wire[2][3].req.url = UrlB
    /\ pc[2] = "send"

(* Both calls were in the middle of a hop at once. *)
C22_BothMidHopReached ==
    /\ pc[1] = "copy" /\ connects[1] = 2
    /\ pc[2] = "content_length" /\ connects[2] = 2
    /\ url[1] # url[2]

====
